---------------------------- MODULE Spec2Model ----------------------------
(***************************************************************************)
(* Model of the invocation layer of src/agent.py: invoke_agent with its    *)
(* result cache, rolling-window rate limiter, retry/backoff loop and       *)
(* metrics counters, run by concurrent caller threads.                     *)
(*                                                                         *)
(* Time is time.time() in whole seconds.  Texts and exception messages are *)
(* sequences of tokens, so that "x in text" is a token search.             *)
(***************************************************************************)
EXTENDS Integers, Sequences, FiniteSets, TLC

\* ------------------------------------------------------------------ bounds
\* Number of invoke_agent calls issued in one behaviour.
MaxInvocations == 3
\* Number of times the wall clock jumps between invocations.
MaxTicks == 1
\* Number of times agent_executor.invoke raises in one behaviour with one
\* caller thread.
MaxFailures == 4
\* The same with two concurrent caller threads.
MaxRaceFailures == 1
\* The same in the behaviours that start from the boundary payloads.
MaxEdgeFailures == 2
\* Number of runs of an entry point in which the search fails.
MaxSearchFailures == 1
\* Number of invocations in a behaviour with overlapping requests.
MaxOverlapInvocations == 2
\* Number of get_metrics() calls in one behaviour.
MaxSnapshots == 2

\* --------------------------------------------------------------- constants
\* GEMINI_MAX_RPM default, agent.py line 119.
GEMINI_MAX_RPM == 2
\* RATE_LIMIT when USE_GEMINI is false, agent.py line 119.
UNLIMITED_RPM == 999
\* GEMINI_MAX_WAIT default, agent.py line 120.
MAX_WAIT_SECONDS == 30
\* GEMINI_CACHE_TTL default, agent.py line 121.
CACHE_TTL == 600
\* Width of the rolling window, agent.py lines 222 and 226.
WINDOW == 60
\* backoff = 1, agent.py line 245.
INITIAL_BACKOFF == 1
\* max_attempts = 4, agent.py line 246.
max_attempts == 4
\* Cap of the backoff, agent.py line 271.
BACKOFF_CAP == 30

Threads == {"t1", "t2"}
\* Jumps of the wall clock between steps (seconds).
TickSteps == {30, 600}

\* ---------------------------------------------------------------- helpers
Min(a, b) == IF a < b THEN a ELSE b
Max(a, b) == IF a > b THEN a ELSE b

\* Python's "tok in text" on token sequences.
Contains(text, tok) == \E i \in DOMAIN text : text[i] = tok

\* Python truthiness of a text, list or tuple: non-empty.
Truthy(x) == x # << >>

\* dict.get(k) followed by a truthiness test: a missing key gives None (falsy).
GetOrFalsy(d, k) == IF k \in DOMAIN d THEN d[k] ELSE << >>

\* "\n".join(parts) for a list of texts.
RECURSIVE Join(_)
Join(parts) ==
    IF parts = << >> THEN << >>
    ELSE IF Len(parts) = 1 THEN parts[1]
    ELSE parts[1] \o <<"\n">> \o Join(Tail(parts))

\* [m.get("content", "") for m in msgs if m.get("content")]
RECURSIVE Contents(_)
Contents(msgs) ==
    IF msgs = << >> THEN << >>
    ELSE LET c == GetOrFalsy(msgs[1], "content")
         IN  (IF Truthy(c) THEN <<c>> ELSE << >>) \o Contents(Tail(msgs))

\* str.lower() on the tokens exception messages are built from.
LowerTok(tok) ==
    CASE tok = "Quota" -> "quota"
      [] tok = "QUOTA" -> "quota"
      [] tok = "RESOURCE_EXHAUSTED" -> "resource_exhausted"
      [] tok = "Boom" -> "boom"
      [] OTHER -> tok
Lower(msg) == [i \in DOMAIN msg |-> LowerTok(msg[i])]

\* ---------------------------------------------------------------- payloads
StrPayload(s) == [kind |-> "str", str |-> s, dict |-> << >>]
DictPayload(d) == [kind |-> "dict", str |-> << >>, dict |-> d]

\* The payloads callers pass to invoke_agent.
Payloads ==
    { StrPayload(<<"a">>),
      DictPayload([input |-> <<"a">>]),
      DictPayload([messages |-> << [role |-> <<"user">>, content |-> <<"a">>] >>]),
      DictPayload([query |-> <<"b">>, input |-> << >>]),
      StrPayload(<<"see", "search_results">>) }

\* The payloads at the edge of what invoke_agent accepts: the empty string,
\* a mapping with none of the text fields, a mapping whose text fields are
\* all empty, and a messages list whose item is a plain string (written as
\* a record with the one field not_a_mapping).
EdgePayloads ==
    { StrPayload(<< >>),
      DictPayload([topic |-> <<"x">>]),
      DictPayload([input |-> << >>, messages |-> << >>]),
      DictPayload([messages |-> << [not_a_mapping |-> <<"raw">>] >>]) }

\* scheduler.py lines 29-32 and main.py lines 56-59: the prompt with the
\* summarized search results of the run; two runs may find different results.
PipelinePayloads ==
    { DictPayload([input |-> <<"AGENT_PROMPT">>, search_results |-> <<"r1">>]),
      DictPayload([input |-> <<"AGENT_PROMPT">>, search_results |-> <<"r2">>]) }

\* The payload of runs that find the same search results.
OverlapPayloads ==
    { DictPayload([input |-> <<"AGENT_PROMPT">>, search_results |-> <<"r1">>]) }

\* The payloads of the behaviours in which the metrics are read.
MetricsPayloads == { StrPayload(<<"a">>) }

\* agent.py line 166: payload.get("input") or payload.get("query") or
\* payload.get("message").
FirstText(d) ==
    IF Truthy(GetOrFalsy(d, "input")) THEN d["input"]
    ELSE IF Truthy(GetOrFalsy(d, "query")) THEN d["query"]
    ELSE GetOrFalsy(d, "message")

\* agent.py lines 167-172: the messages list is read (no text so far, the
\* key is there and the list is not empty) and one of its items has no get.
MessagesRaise(p) ==
    /\ p.kind = "dict"
    /\ ~Truthy(FirstText(p.dict))
    /\ "messages" \in DOMAIN p.dict
    /\ Truthy(p.dict["messages"])
    /\ \E i \in DOMAIN p.dict["messages"] :
          "not_a_mapping" \in DOMAIN p.dict["messages"][i]

\* agent.py lines 162-177: the text taken from the payload.
ExtractText(p) ==
    IF p.kind = "str" THEN p.str
    ELSE LET d == p.dict
             first == FirstText(d)
             text == IF ~Truthy(first) /\ "messages" \in DOMAIN d
                        /\ Truthy(d["messages"])
                     THEN Join(Contents(d["messages"]))
                     ELSE first
         IN  IF Truthy(text) THEN text ELSE << >>

\* agent.py line 180: "search_results" in payload (substring of a string,
\* key of a dict).
HasSearchResults(p) ==
    IF p.kind = "str" THEN Contains(p.str, "search_results")
    ELSE "search_results" \in DOMAIN p.dict

\* A mapping that carries none of the text fields is rejected during
\* normalization.
NormalizeRaisesOnNoField(p) ==
    \/ MessagesRaise(p)
    \/ HasSearchResults(p) /\ p.kind = "str"
    \/ p.kind = "dict" /\ DOMAIN p.dict \cap {"input", "query", "message", "messages"} = {}

\* A payload that yields no text is rejected during normalization.
NormalizeRaisesOnEmpty(p) ==
    \/ MessagesRaise(p)
    \/ HasSearchResults(p) /\ p.kind = "str"
    \/ ~Truthy(ExtractText(p))

\* agent.py line 172 on a messages item that is no mapping, line 181 on a
\* string payload: the object has no attribute get.
NormalizeRaises(p) == MessagesRaise(p) \/ (HasSearchResults(p) /\ p.kind = "str")

\* summarize_results for the values the callers attach: a text is returned
\* as it is (summarization.py lines 196-201).
summarize_results(sr) == IF ~Truthy(sr) THEN <<"[]">> ELSE sr

\* agent.py lines 162-184: the user text of the normalized payload.
NormalizeText(p) ==
    IF HasSearchResults(p)
    THEN ExtractText(p) \o <<"\n", "\n", "## Search Context:", "\n">>
             \o summarize_results(p.dict["search_results"])
    ELSE ExtractText(p)

system_prompt == <<"system_prompt">>

\* A key that does not depend on the input text.
CacheKeyShared(text) == <<"messages">>

\* agent.py lines 187-195: json.dumps(normalized_payload, sort_keys=True);
\* the keys of every object come out sorted ("content" before "role").
CacheKey(text) ==
    << "messages",
       << << <<"content", system_prompt>>, <<"role", "system">> >>,
          << <<"content", text>>, <<"role", "user">> >> >> >>

\* ------------------------------------------------------------ Agent Caller
\* What agent_executor.invoke may return for a request: one of two answers.
Variants == {1, 2}
Response(text, v) == <<"response", text, v>>

\* What agent_executor.invoke may raise: str(e) as tokens.
AgentErrors ==
    { <<"RESOURCE_EXHAUSTED">>,
      <<"Quota", "exceeded">>,
      <<"Boom">> }

\* Every Agent Caller error is taken for a quota error.
IsQuotaErrorAlways(msg) == TRUE

\* agent.py line 266.
IsQuotaError(msg) ==
    \/ Contains(msg, "RESOURCE_EXHAUSTED")
    \/ Contains(msg, "429")
    \/ Contains(Lower(msg), "quota")

RateLimitError == <<"Rate limit exceeded">>
AttributeError == <<"'str' object has no attribute 'get'">>

\* ------------------------------------------------------------------- state
VARIABLES
    clock,             \* time.time()
    ticks,             \* clock jumps taken so far
    issued,            \* invoke_agent calls issued so far
    failures,          \* exceptions agent_executor.invoke raised so far
    USE_GEMINI,        \* agent.py line 12
    callers,           \* the threads that call invoke_agent
    limits,            \* how many calls, clock jumps and failures may occur
    inputs,            \* the payloads the callers pass
    snapshots,         \* the mappings get_metrics() has returned, in order
    db,                \* the documents of the opportunities collection
    outbox,            \* the emails handed to send_email, in order
    request,           \* per thread: the locals of the loop of search_opportunities
    runs,              \* the runs of the two entry points that are over
    _call_timestamps,  \* agent.py line 123
    _cache,            \* agent.py line 125: key -> <<timestamp, result>>
    _metrics,          \* agent.py lines 137-145
    _timestamps_lock,  \* agent.py line 124: the holder of the lock, or "free"
    _cache_lock,       \* agent.py line 126
    _metrics_lock,     \* agent.py line 146
    pc,                \* per thread: the line of invoke_agent it stands at
    payload,           \* per thread: the argument of its invoke_agent call
    frame,             \* per thread: the local variables of invoke_agent
    returned,          \* per thread: the value its call returned, << >> if none
    raised,            \* per thread: str(e) of the exception its call raised
    tally,             \* per thread: counter increments made by its call
    slept,             \* per thread: the time.sleep calls of its call
    appended,          \* per thread: timestamps its call appended
    call_log           \* start times of the Agent Caller attempts still in
                       \* reach of a 60 s window

pipeline == <<db, outbox, request, runs>>
config == <<ticks, issued, failures, USE_GEMINI, callers, limits, inputs, snapshots, pipeline>>
shared == <<_call_timestamps, _cache, _metrics>>
locks == <<_timestamps_lock, _cache_lock, _metrics_lock>>
caller == <<payload, returned, raised>>
observed == <<tally, slept, appended>>
vars == <<clock, config, shared, locks, pc, frame, caller, observed, call_log>>

Counters == {"total_invocations", "model_calls", "cache_hits", "cache_misses",
             "rate_limited_waits", "retries", "errors"}
ZeroCounters == [c \in Counters |-> 0]

\* The locals of invoke_agent before they are assigned, and after it returned.
NoFrame == [input_text |-> << >>, key |-> << >>, now |-> 0, entry |-> << >>,
            wait |-> 0, backoff |-> 0, attempt |-> 0, last_exc |-> << >>,
            result |-> << >>, wake |-> 0]

\* agent.py line 119.
RATE_LIMIT == IF USE_GEMINI THEN GEMINI_MAX_RPM ELSE UNLIMITED_RPM

Start ==
    /\ clock = 0
    /\ ticks = 0
    /\ issued = 0
    /\ failures = 0
    /\ USE_GEMINI \in BOOLEAN
    /\ _call_timestamps = << >>
    /\ _cache = << >>
    /\ _metrics = ZeroCounters
    /\ _timestamps_lock = "free"
    /\ _cache_lock = "free"
    /\ _metrics_lock = "free"
    /\ pc = [t \in Threads |-> "idle"]
    /\ payload = [t \in Threads |-> StrPayload(<< >>)]
    /\ frame = [t \in Threads |-> NoFrame]
    /\ returned = [t \in Threads |-> << >>]
    /\ raised = [t \in Threads |-> << >>]
    /\ tally = [t \in Threads |-> ZeroCounters]
    /\ slept = [t \in Threads |-> << >>]
    /\ appended = [t \in Threads |-> 0]
    /\ call_log = << >>
    /\ snapshots = << >>
    /\ db = {}
    /\ outbox = << >>
    /\ request = [t \in Threads |-> [todo |-> << >>, new_items |-> << >>,
                                     email |-> << >>, known |-> {}]]
    /\ runs = << >>

\* One caller thread: invocations follow one another.
Init ==
    /\ Start
    /\ callers = {"t1"}
    /\ inputs = Payloads
    /\ limits = [issued |-> MaxInvocations, ticks |-> MaxTicks,
                 failures |-> MaxFailures]

\* Two caller threads: invocations overlap.
InitRace ==
    /\ Start
    /\ callers = Threads
    /\ inputs = Payloads
    /\ limits = [issued |-> MaxInvocations, ticks |-> MaxTicks,
                 failures |-> MaxRaceFailures]

\* One caller thread passing one text, and readers of the metrics.
InitMetrics ==
    /\ Start
    /\ callers = {"t1"}
    /\ inputs = MetricsPayloads
    /\ limits = [issued |-> MaxInvocations, ticks |-> MaxTicks,
                 failures |-> MaxEdgeFailures]

\* One thread on which the scheduled job and the endpoint run in turn.
InitPipeline ==
    /\ Start
    /\ callers = {"t1"}
    /\ inputs = PipelinePayloads
    /\ limits = [issued |-> MaxInvocations, ticks |-> MaxTicks,
                 failures |-> MaxRaceFailures]

\* Two threads on which the endpoint and the scheduled job run at once,
\* with the same search results.
InitOverlap ==
    /\ Start
    /\ callers = Threads
    /\ inputs = OverlapPayloads
    /\ limits = [issued |-> MaxOverlapInvocations, ticks |-> MaxTicks,
                 failures |-> MaxRaceFailures]

\* One caller thread that passes the boundary payloads.
InitEdge ==
    /\ Start
    /\ callers = {"t1"}
    /\ inputs = EdgePayloads
    /\ limits = [issued |-> MaxInvocations, ticks |-> MaxTicks,
                 failures |-> MaxEdgeFailures]

\* The counter is wound back where the code adds 1 to it.
IncDown(t, name) ==
    /\ _metrics' = [_metrics EXCEPT ![name] = @ - 1]
    /\ tally' = [tally EXCEPT ![t][name] = @ + 1]

\* ----------------------------------------------------------------- helpers
\* _metrics[name] += 1 under the metrics lock held by t.
Inc(t, name) ==
    /\ _metrics' = [_metrics EXCEPT ![name] = @ + 1]
    /\ tally' = [tally EXCEPT ![t][name] = @ + 1]

\* The entry still counts as fresh at exactly CACHE_TTL seconds.
CacheFreshInclusive(e, n) == Truthy(e) /\ n - e[1] <= CACHE_TTL

\* agent.py line 207: the entry is present and younger than the TTL.
CacheFresh(e, n) == Truthy(e) /\ n - e[1] < CACHE_TTL

\* agent.py lines 222-223: drop from the left while the oldest is too old.
RECURSIVE Prune(_, _)
Prune(ts, n) ==
    IF Truthy(ts) /\ n - ts[1] > WINDOW THEN Prune(Tail(ts), n) ELSE ts

\* agent.py lines 224-226: the wait the limiter asks for.
RequiredWait(ts, n) ==
    IF Len(ts) >= RATE_LIMIT THEN WINDOW - (n - ts[1]) ELSE 0

\* A wait of exactly MAX_WAIT_SECONDS is refused too.
RefusedAtLimit(w) == w >= MAX_WAIT_SECONDS

\* agent.py line 227.
Refused(w) == w > MAX_WAIT_SECONDS

\* The backoff grows by one second from sleep to sleep.
NextBackoffLinear(b) == Min(b + 1, BACKOFF_CAP)

\* agent.py line 271.
NextBackoff(b) == Min(b * 2, BACKOFF_CAP)

\* The retry loop never runs out of attempts.
HasNextAttemptAlways(a) == TRUE

\* agent.py line 248: range(1, max_attempts + 1) has another attempt.
HasNextAttempt(a) == a < max_attempts

Goto(t, line) == pc' = [pc EXCEPT ![t] = line]

\* threading.Lock.acquire by t at line `from`: blocks while the lock is held.
Take(t, from, to, lock) == pc[t] = from /\ lock = "free" /\ Goto(t, to)

\* invoke_agent returns value to the caller of t; its locals are gone.
Return(t, value) ==
    /\ returned' = [returned EXCEPT ![t] = value]
    /\ frame' = [frame EXCEPT ![t] = NoFrame]
    /\ Goto(t, "done")
    /\ UNCHANGED <<payload, raised>>

\* invoke_agent raises an exception with message msg to the caller of t.
Raise(t, msg) ==
    /\ raised' = [raised EXCEPT ![t] = msg]
    /\ frame' = [frame EXCEPT ![t] = NoFrame]
    /\ Goto(t, "done")
    /\ UNCHANGED <<payload, returned>>

\* The attempt start times that can still share a 60 s window with a start
\* at time n or later.
InReach(log, n) == SelectSeq(log, LAMBDA x : n - x < WINDOW)

\* ------------------------------------------------------------- environment
\* No call of invoke_agent is under way in thread t.
Outside(t) == pc[t] \in {"idle", "done"}

\* The caller of t has the outcome of its call (pc "done"); it takes it
\* before anything else happens, and the record of the call is dropped.
Leave(t) ==
    /\ pc[t] = "done"
    /\ Goto(t, "idle")
    /\ payload' = [payload EXCEPT ![t] = StrPayload(<< >>)]
    /\ returned' = [returned EXCEPT ![t] = << >>]
    /\ raised' = [raised EXCEPT ![t] = << >>]
    /\ tally' = [tally EXCEPT ![t] = ZeroCounters]
    /\ slept' = [slept EXCEPT ![t] = << >>]
    /\ appended' = [appended EXCEPT ![t] = 0]
    /\ UNCHANGED <<clock, config, shared, locks, frame, call_log>>

\* No outcome is waiting to be taken.
Running == \A t \in Threads : pc[t] # "done"

\* The wall clock jumps between invocations; during one, time passes in
\* its time.sleep calls (WakeWait, WakeBackoff).
Tick(d) ==
    /\ ticks < limits.ticks
    /\ \A t \in Threads : Outside(t)
    /\ clock' = clock + d
    /\ ticks' = ticks + 1
    /\ UNCHANGED <<issued, failures, USE_GEMINI, callers, limits, inputs, snapshots,
                   pipeline, shared, locks, pc, frame, caller, observed, call_log>>

\* ------------------------------------------------------------ invoke_agent
\* agent.py lines 154-197: a caller enters invoke_agent(p); normalization,
\* key and now.  A string that contains "search_results" fails at line 181.
Invoke(t, p) ==
    /\ pc[t] = "idle"
    /\ t \in callers
    /\ issued < limits.issued
    /\ issued' = issued + 1
    /\ payload' = [payload EXCEPT ![t] = p]
    /\ UNCHANGED <<returned, observed>>
    /\ IF NormalizeRaises(p)
       THEN /\ raised' = [raised EXCEPT ![t] = AttributeError]
            /\ frame' = [frame EXCEPT ![t] = NoFrame]
            /\ Goto(t, "done")
       ELSE /\ raised' = [raised EXCEPT ![t] = << >>]
            /\ frame' = [frame EXCEPT ![t] =
                            [NoFrame EXCEPT !.input_text = NormalizeText(p),
                                            !.key = CacheKey(NormalizeText(p)),
                                            !.now = clock]]
            /\ Goto(t, "L199")
    /\ UNCHANGED <<clock, ticks, failures, USE_GEMINI, callers, limits, inputs, snapshots,
                   pipeline, shared, locks, call_log>>

\* The metrics lock taken at line 199 is kept while the call goes on to
\* the cache lock.
IncTotalHolding(t) ==
    /\ pc[t] = "L199"
    /\ _metrics_lock = "free"
    /\ _metrics_lock' = t
    /\ Inc(t, "total_invocations")
    /\ Goto(t, "L205")
    /\ UNCHANGED <<clock, config, _call_timestamps, _cache, _timestamps_lock,
                   _cache_lock, frame, caller, slept, appended, call_log>>

\* agent.py lines 199-200: with _metrics_lock, one statement.
IncTotal(t) ==
    /\ pc[t] = "L199"
    /\ _metrics_lock = "free"
    /\ Inc(t, "total_invocations")
    /\ Goto(t, "L205")
    /\ UNCHANGED <<clock, config, _call_timestamps, _cache, _timestamps_lock,
                   _cache_lock, _metrics_lock, frame, caller, slept, appended, call_log>>

\* agent.py lines 205-207 and 212: take the cache lock, read the entry and
\* decide hit or miss.
Probe(t) ==
    /\ LET e == GetOrFalsy(_cache, frame[t].key)
       IN  /\ Take(t, "L205", IF CacheFresh(e, frame[t].now) THEN "L208" ELSE "L213",
                   _cache_lock)
           /\ frame' = [frame EXCEPT ![t].entry = e]
    /\ _cache_lock' = t
    /\ UNCHANGED <<clock, config, shared, _timestamps_lock, _metrics_lock, caller,
                   observed, call_log>>

\* agent.py line 208: with _metrics_lock, inside the cache lock.
AcquireHit(t) ==
    /\ Take(t, "L208", "L209", _metrics_lock)
    /\ _metrics_lock' = t
    /\ UNCHANGED <<clock, config, shared, _timestamps_lock, _cache_lock, frame,
                   caller, observed, call_log>>

\* The hit path also records an admission timestamp.
IncHitRecording(t) ==
    /\ pc[t] = "L209"
    /\ Inc(t, "cache_hits")
    /\ _metrics_lock' = "free"
    /\ _cache_lock' = "free"
    /\ _call_timestamps' = Append(_call_timestamps, clock)
    /\ Return(t, frame[t].entry[2])
    /\ UNCHANGED <<clock, config, _cache, _timestamps_lock, slept, appended, call_log>>

\* The hit path refreshes the timestamp of the entry it returns.
IncHitRefreshing(t) ==
    /\ pc[t] = "L209"
    /\ Inc(t, "cache_hits")
    /\ _metrics_lock' = "free"
    /\ _cache_lock' = "free"
    /\ _cache' = [_cache EXCEPT ![frame[t].key] = <<clock, @[2]>>]
    /\ Return(t, frame[t].entry[2])
    /\ UNCHANGED <<clock, config, _call_timestamps, _timestamps_lock, slept, appended,
                   call_log>>

\* agent.py lines 209-211: count the hit and return entry[1]; both locks
\* are released on the way out.
IncHit(t) ==
    /\ pc[t] = "L209"
    /\ Inc(t, "cache_hits")
    /\ _metrics_lock' = "free"
    /\ _cache_lock' = "free"
    /\ Return(t, frame[t].entry[2])
    /\ UNCHANGED <<clock, config, _call_timestamps, _cache, _timestamps_lock,
                   slept, appended, call_log>>

\* agent.py line 213: with _metrics_lock, inside the cache lock.
AcquireMiss(t) ==
    /\ Take(t, "L213", "L214", _metrics_lock)
    /\ _metrics_lock' = t
    /\ UNCHANGED <<clock, config, shared, _timestamps_lock, _cache_lock, frame,
                   caller, observed, call_log>>

\* The miss is not counted.
IncMissUncounted(t) ==
    /\ pc[t] = "L214"
    /\ UNCHANGED <<_metrics, tally>>
    /\ _metrics_lock' = "free"
    /\ _cache_lock' = "free"
    /\ frame' = [frame EXCEPT ![t].wait = 0]
    /\ Goto(t, IF USE_GEMINI THEN "L220" ELSE "L241")
    /\ UNCHANGED <<clock, config, _call_timestamps, _cache, _timestamps_lock,
                   caller, slept, appended, call_log>>

\* agent.py lines 214-219 and 234: count the miss, leave both locks,
\* wait = 0; the limiter is entered only under USE_GEMINI.
IncMiss(t) ==
    /\ pc[t] = "L214"
    /\ Inc(t, "cache_misses")
    /\ _metrics_lock' = "free"
    /\ _cache_lock' = "free"
    /\ frame' = [frame EXCEPT ![t].wait = 0]
    /\ Goto(t, IF USE_GEMINI THEN "L220" ELSE "L241")
    /\ UNCHANGED <<clock, config, _call_timestamps, _cache, _timestamps_lock,
                   caller, slept, appended, call_log>>

\* agent.py line 220: with _timestamps_lock.
AcquireCheck(t) ==
    /\ Take(t, "L220", "L222", _timestamps_lock)
    /\ _timestamps_lock' = t
    /\ UNCHANGED <<clock, config, shared, _cache_lock, _metrics_lock, frame,
                   caller, observed, call_log>>

\* The wait is slept inside the with block: the timestamps lock is kept
\* when a wait is due.
PruneCheckHolding(t) ==
    /\ pc[t] = "L222"
    /\ LET ts == Prune(_call_timestamps, frame[t].now)
           w == RequiredWait(ts, frame[t].now)
       IN  /\ _call_timestamps' = ts
           /\ frame' = [frame EXCEPT ![t].wait = w]
           /\ IF Refused(w)
              THEN /\ Goto(t, "L228")
                   /\ UNCHANGED _timestamps_lock
              ELSE /\ Goto(t, IF w > 0 THEN "L235" ELSE "L241")
                   /\ _timestamps_lock' = IF w > 0 THEN t ELSE "free"
    /\ UNCHANGED <<clock, config, _cache, _metrics, _cache_lock, _metrics_lock,
                   caller, observed, call_log>>

\* agent.py lines 222-227 and 234: prune, compute the wait, and either go
\* on to refuse (line 228, lock still held) or leave the lock.
PruneCheck(t) ==
    /\ pc[t] = "L222"
    /\ LET ts == Prune(_call_timestamps, frame[t].now)
           w == RequiredWait(ts, frame[t].now)
       IN  /\ _call_timestamps' = ts
           /\ frame' = [frame EXCEPT ![t].wait = w]
           /\ IF Refused(w)
              THEN /\ Goto(t, "L228")
                   /\ UNCHANGED _timestamps_lock
              ELSE /\ Goto(t, IF w > 0 THEN "L235" ELSE "L241")
                   /\ _timestamps_lock' = "free"
    /\ UNCHANGED <<clock, config, _cache, _metrics, _cache_lock, _metrics_lock,
                   caller, observed, call_log>>

\* agent.py line 228: with _metrics_lock, inside the timestamps lock.
AcquireRefuse(t) ==
    /\ Take(t, "L228", "L229", _metrics_lock)
    /\ _metrics_lock' = t
    /\ UNCHANGED <<clock, config, shared, _timestamps_lock, _cache_lock, frame,
                   caller, observed, call_log>>

\* The refusal is counted as a rate-limited wait instead of an error.
IncRefuseAsWait(t) ==
    /\ pc[t] = "L229"
    /\ Inc(t, "rate_limited_waits")
    /\ _metrics_lock' = "free"
    /\ _timestamps_lock' = "free"
    /\ Raise(t, RateLimitError)
    /\ UNCHANGED <<clock, config, _call_timestamps, _cache, _cache_lock, slept,
                   appended, call_log>>

\* agent.py lines 229-232: count the error and raise; both locks are
\* released as the exception leaves the with blocks.
IncRefuse(t) ==
    /\ pc[t] = "L229"
    /\ Inc(t, "errors")
    /\ _metrics_lock' = "free"
    /\ _timestamps_lock' = "free"
    /\ Raise(t, RateLimitError)
    /\ UNCHANGED <<clock, config, _call_timestamps, _cache, _cache_lock, slept,
                   appended, call_log>>

\* agent.py lines 235-238: count the wait under the metrics lock, then
\* time.sleep(wait).
IncWait(t) ==
    /\ pc[t] = "L235"
    /\ _metrics_lock = "free"
    /\ Inc(t, "rate_limited_waits")
    /\ frame' = [frame EXCEPT ![t].wake = clock + frame[t].wait]
    /\ slept' = [slept EXCEPT ![t] = Append(@, <<"rate_limit", frame[t].wait>>)]
    /\ Goto(t, "L238")
    /\ UNCHANGED <<clock, config, _call_timestamps, _cache, _timestamps_lock,
                   _cache_lock, _metrics_lock, caller, appended, call_log>>

\* agent.py line 238: time.sleep(wait) returns once the time is up.
WakeWait(t) ==
    /\ pc[t] = "L238"
    /\ clock' = Max(clock, frame[t].wake)
    /\ Goto(t, "L241")
    /\ UNCHANGED <<config, shared, locks, frame, caller, observed, call_log>>

\* agent.py line 241: with _timestamps_lock.
AcquireRecord(t) ==
    /\ Take(t, "L241", "L242", _timestamps_lock)
    /\ _timestamps_lock' = t
    /\ UNCHANGED <<clock, config, shared, _cache_lock, _metrics_lock, frame,
                   caller, observed, call_log>>

\* agent.py lines 242-248: append time.time(), leave the lock, set up the
\* retry loop.
Record(t) ==
    /\ pc[t] = "L242"
    /\ _call_timestamps' = Append(_call_timestamps, clock)
    /\ _timestamps_lock' = "free"
    /\ appended' = [appended EXCEPT ![t] = @ + 1]
    /\ frame' = [frame EXCEPT ![t].backoff = INITIAL_BACKOFF,
                              ![t].attempt = 1,
                              ![t].last_exc = << >>]
    /\ Goto(t, "L251")
    /\ UNCHANGED <<clock, config, _cache, _metrics, _cache_lock, _metrics_lock,
                   caller, tally, slept, call_log>>

\* Every attempt, retries included, appends a timestamp to the log.
IncCallRecording(t) ==
    /\ pc[t] = "L251"
    /\ _metrics_lock = "free"
    /\ Inc(t, "model_calls")
    /\ call_log' = Append(InReach(call_log, clock), clock)
    /\ _call_timestamps' = IF frame[t].attempt > 1
                           THEN Append(_call_timestamps, clock)
                           ELSE _call_timestamps
    /\ appended' = [appended EXCEPT ![t] = IF frame[t].attempt > 1 THEN @ + 1 ELSE @]
    /\ Goto(t, "L254")
    /\ UNCHANGED <<clock, config, _cache, _timestamps_lock,
                   _cache_lock, _metrics_lock, frame, caller, slept>>

\* agent.py lines 251-254: count the call under the metrics lock, then enter
\* agent_executor.invoke.
IncCall(t) ==
    /\ pc[t] = "L251"
    /\ _metrics_lock = "free"
    /\ Inc(t, "model_calls")
    /\ call_log' = Append(InReach(call_log, clock), clock)
    /\ Goto(t, "L254")
    /\ UNCHANGED <<clock, config, _call_timestamps, _cache, _timestamps_lock,
                   _cache_lock, _metrics_lock, frame, caller, slept, appended>>

\* agent.py lines 254-255: agent_executor.invoke returns a result.
AgentReturns(t, v) ==
    /\ pc[t] = "L254"
    /\ frame' = [frame EXCEPT ![t].result = Response(frame[t].input_text, v)]
    /\ Goto(t, "L256")
    /\ UNCHANGED <<clock, config, shared, locks, caller, observed, call_log>>

\* agent.py lines 259-261: agent_executor.invoke raises e, str(e) = msg.
AgentRaises(t, msg) ==
    /\ pc[t] = "L254"
    /\ failures < limits.failures
    /\ failures' = failures + 1
    /\ frame' = [frame EXCEPT ![t].last_exc = msg]
    /\ Goto(t, "L262")
    /\ UNCHANGED <<clock, ticks, issued, USE_GEMINI, callers, limits, inputs, snapshots,
                   pipeline, shared, locks, caller, observed, call_log>>

\* The store does not wait for the cache lock.
AcquireStoreBarging(t) ==
    /\ pc[t] = "L256"
    /\ Goto(t, "L257")
    /\ _cache_lock' = t
    /\ UNCHANGED <<clock, config, shared, _timestamps_lock, _metrics_lock, frame,
                   caller, observed, call_log>>

\* agent.py line 256: with _cache_lock.
AcquireStore(t) ==
    /\ Take(t, "L256", "L257", _cache_lock)
    /\ _cache_lock' = t
    /\ UNCHANGED <<clock, config, shared, _timestamps_lock, _metrics_lock, frame,
                   caller, observed, call_log>>

\* The result is returned without being written to the cache.
StoreNothing(t) ==
    /\ pc[t] = "L257"
    /\ _cache_lock' = "free"
    /\ Return(t, frame[t].result)
    /\ UNCHANGED <<clock, config, shared, _timestamps_lock, _metrics_lock, observed,
                   call_log>>

\* agent.py lines 257-258: _cache[key] = (time.time(), result); return.
Store(t) ==
    /\ pc[t] = "L257"
    /\ _cache' = (frame[t].key :> <<clock, frame[t].result>>) @@ _cache
    /\ _cache_lock' = "free"
    /\ Return(t, frame[t].result)
    /\ UNCHANGED <<clock, config, _call_timestamps, _metrics, _timestamps_lock,
                   _metrics_lock, observed, call_log>>

\* agent.py lines 262-266 and 273: count the error under the metrics lock; a quota
\* message goes on to the retry, anything else is raised again.
IncError(t) ==
    /\ pc[t] = "L262"
    /\ _metrics_lock = "free"
    /\ Inc(t, "errors")
    /\ IF IsQuotaError(frame[t].last_exc)
       THEN /\ Goto(t, "L267")
            /\ UNCHANGED <<frame, caller>>
       ELSE Raise(t, frame[t].last_exc)
    /\ UNCHANGED <<clock, config, _call_timestamps, _cache, _timestamps_lock,
                   _cache_lock, _metrics_lock, slept, appended, call_log>>

\* agent.py lines 267-270: count the retry under the metrics lock, then
\* time.sleep(backoff).
IncRetry(t) ==
    /\ pc[t] = "L267"
    /\ _metrics_lock = "free"
    /\ Inc(t, "retries")
    /\ frame' = [frame EXCEPT ![t].wake = clock + frame[t].backoff]
    /\ slept' = [slept EXCEPT ![t] = Append(@, <<"backoff", frame[t].backoff>>)]
    /\ Goto(t, "L270")
    /\ UNCHANGED <<clock, config, _call_timestamps, _cache, _timestamps_lock,
                   _cache_lock, _metrics_lock, caller, appended, call_log>>

\* agent.py lines 270-272, 248 and 275-277: the sleep is over, the backoff
\* doubles, and the loop takes the next attempt or, after the last one,
\* falls through to raise last_exc.
WakeBackoff(t) ==
    /\ pc[t] = "L270"
    /\ clock' = Max(clock, frame[t].wake)
    /\ IF HasNextAttempt(frame[t].attempt)
       THEN /\ frame' = [frame EXCEPT ![t].backoff = NextBackoff(@),
                                      ![t].attempt = @ + 1]
            /\ Goto(t, "L251")
            /\ UNCHANGED caller
       ELSE Raise(t, frame[t].last_exc)
    /\ UNCHANGED <<config, shared, locks, observed, call_log>>

Step ==
    \/ \E d \in TickSteps : Tick(d)
    \/ \E t \in Threads :
        \/ \E p \in inputs : Invoke(t, p)
        \/ IncTotal(t)
        \/ Probe(t)
        \/ AcquireHit(t) \/ IncHit(t)
        \/ AcquireMiss(t) \/ IncMiss(t)
        \/ AcquireCheck(t) \/ PruneCheck(t)
        \/ AcquireRefuse(t) \/ IncRefuse(t)
        \/ IncWait(t) \/ WakeWait(t)
        \/ AcquireRecord(t) \/ Record(t)
        \/ IncCall(t)
        \/ \E v \in Variants : AgentReturns(t, v)
        \/ \E msg \in AgentErrors : AgentRaises(t, msg)
        \/ AcquireStore(t) \/ Store(t)
        \/ IncError(t)
        \/ IncRetry(t) \/ WakeBackoff(t)

Next ==
    \/ \E t \in Threads : Leave(t)
    \/ Running /\ Step

Spec == Init /\ [][Next]_vars

RaceSpec == InitRace /\ [][Next]_vars

EdgeSpec == InitEdge /\ [][Next]_vars

\* ----------------------------------------------------------------- fairness
\* A step of the call of invoke_agent under way in thread t.
Proceed(t) ==
    /\ Running
    /\ \/ IncTotal(t)
       \/ Probe(t)
       \/ AcquireHit(t) \/ IncHit(t)
       \/ AcquireMiss(t) \/ IncMiss(t)
       \/ AcquireCheck(t) \/ PruneCheck(t)
       \/ AcquireRefuse(t) \/ IncRefuse(t)
       \/ IncWait(t) \/ WakeWait(t)
       \/ AcquireRecord(t) \/ Record(t)
       \/ IncCall(t)
       \/ \E v \in Variants : AgentReturns(t, v)
       \/ \E msg \in AgentErrors : AgentRaises(t, msg)
       \/ AcquireStore(t) \/ Store(t)
       \/ IncError(t)
       \/ IncRetry(t) \/ WakeBackoff(t)

\* Every thread that can take a step of its call takes one in the end:
\* time.sleep and agent_executor.invoke come back, a free lock is granted,
\* and a caller takes the outcome of its call.
Fairness == \A t \in Threads : WF_vars(Proceed(t)) /\ WF_vars(Leave(t))

LiveSpec == Init /\ [][Next]_vars /\ Fairness

\* Two caller threads whose calls for one text overlap, every call
\* proceeding.
InitRaceLive ==
    /\ Start
    /\ callers = Threads
    /\ inputs = {StrPayload(<<"a">>)}
    /\ limits = [issued |-> MaxInvocations, ticks |-> MaxTicks,
                 failures |-> MaxRaceFailures]

RaceLiveSpec == InitRaceLive /\ [][Next]_vars /\ Fairness

\* --------------------------------------------------------------- get_metrics
\* A mapping handed to a caller: either an object of its own holding
\* value, or (live) the _metrics dict itself.
SnapshotLive(m) == [live |-> TRUE, value |-> m, touched |-> FALSE]

\* agent.py line 151: dict(_metrics), a new dict with the same items.
Snapshot(m) == [live |-> FALSE, value |-> m, touched |-> FALSE]

\* What the holder of the i-th returned mapping reads in it.
Seen(i) == IF snapshots[i].live THEN _metrics ELSE snapshots[i].value

\* agent.py lines 149-151 (main.py lines 113-116): with _metrics_lock,
\* return dict(_metrics).
get_metrics ==
    /\ Len(snapshots) < MaxSnapshots
    /\ _metrics_lock = "free"
    /\ snapshots' = Append(snapshots, Snapshot(_metrics))
    /\ UNCHANGED <<clock, ticks, issued, failures, USE_GEMINI, callers, limits, inputs,
                   pipeline, shared, locks, pc, frame, caller, observed, call_log>>

\* The holder of the i-th returned mapping writes into it: m["errors"] = -1.
\* The write lands in the object the mapping is.
Scribble(i) ==
    /\ ~snapshots[i].touched
    /\ IF snapshots[i].live
       THEN /\ _metrics' = [_metrics EXCEPT !["errors"] = -1]
            /\ snapshots' = [snapshots EXCEPT ![i].touched = TRUE]
       ELSE /\ snapshots' = [snapshots EXCEPT ![i].touched = TRUE,
                                             ![i].value["errors"] = -1]
            /\ UNCHANGED _metrics
    /\ UNCHANGED <<clock, ticks, issued, failures, USE_GEMINI, callers, limits, inputs,
                   pipeline, _call_timestamps, _cache, locks, pc, frame, caller, observed,
                   call_log>>

NextMetrics ==
    \/ Next
    \/ Running /\ get_metrics
    \/ Running /\ \E i \in DOMAIN snapshots : Scribble(i)

MetricsSpec == InitMetrics /\ [][NextMetrics]_vars

\* ------------------------------------------------- the two entry points
\* job_config.py lines 38-46: the recipients of the scheduled job.
DAILY_JOB_CONFIG == [emails |-> <<"subscriber">>]

\* main.py lines 28-30 and 97: data.email of a request, None written << >>.
RequestEmails == {<< >>, <<"requester">>}

\* The postings an answer of the agent may list.
J1 == [official_link |-> <<"l1">>, title |-> <<"nurse">>, country |-> <<"DE">>]
J2 == [official_link |-> <<"l2">>, title |-> <<"welder">>, country |-> <<"CA">>]

\* A result of invoke_agent was made for the search results r.
About(result, r) == Contains(result[2], r)

\* The postings listed in the output of a result of invoke_agent.  For the
\* search results r2 the agent finds nothing: it says so or says nothing.
\* Otherwise its second answer lists a posting more than the first, twice.
Opportunities(result) ==
    IF About(result, "r2") THEN << >>
    ELSE IF result[3] = 1 THEN <<J1>> ELSE <<J2, J1, J2>>

\* scheduler.py lines 38-43: the output text of a result, the links of the
\* postings it lists standing for the text that describes them.
Body(result) ==
    IF About(result, "r2")
    THEN IF result[3] = 1 THEN <<"No new opportunities", "found.">> ELSE << >>
    ELSE [i \in DOMAIN Opportunities(result) |->
             Opportunities(result)[i].official_link[1]]

\* main.py lines 68-78: json.loads accepts the output; it raises on an
\* empty text and on a sentence.
IsJson(result) == ~About(result, "r2")

\* db.py lines 11-13: sha256 of f"{title}-{country}"; equal texts give
\* equal digests, and the digest is written as the text it is taken of.
generate_hash(title, country) == title \o <<"-">> \o country

\* db.py lines 16-22: a document has the link or the hash.
opportunity_exists(store, link, title, country) ==
    \E doc \in store :
        \/ doc.official_link = link
        \/ doc.hash = generate_hash(title, country)

\* db.py lines 25-27: the document inserted for a posting; insert_one
\* gives every document an _id of its own.
Document(opp, store) ==
    [official_link |-> opp.official_link, title |-> opp.title,
     country |-> opp.country, hash |-> generate_hash(opp.title, opp.country),
     _id |-> Cardinality(store) + 1]

\* The elements of a sequence.
Range(seq) == {seq[i] : i \in DOMAIN seq}

\* One call of send_email: who sent it, to whom, the postings in its body,
\* and the collection as it was when the run looked at it.
Email(by, to, listed, store) ==
    [by |-> by, to |-> to, postings |-> listed, known |-> store]

\* One run of an entry point, as its logs tell it: whether the search and
\* invoke_agent came back, the output, the postings reported as new and
\* the number of send_email calls.
Run(by, search, invoke, body, new_results, sent) ==
    [by |-> by, search |-> search, invoke |-> invoke, body |-> body,
     new_results |-> new_results, sent |-> sent]

\* The handler on thread t has returned: its call of invoke_agent is
\* forgotten.
EndRun(t) ==
    /\ Goto(t, "idle")
    /\ payload' = [payload EXCEPT ![t] = StrPayload(<< >>)]
    /\ returned' = [returned EXCEPT ![t] = << >>]
    /\ raised' = [raised EXCEPT ![t] = << >>]
    /\ tally' = [tally EXCEPT ![t] = ZeroCounters]
    /\ slept' = [slept EXCEPT ![t] = << >>]
    /\ appended' = [appended EXCEPT ![t] = 0]
    /\ UNCHANGED <<clock, ticks, issued, failures, USE_GEMINI, callers, limits, inputs,
                   snapshots, shared, locks, frame, call_log>>

\* scheduler.py lines 20-26 and main.py lines 47-53: preview_search raises
\* (agent.py 305-307).  The job logs and returns, the endpoint raises
\* again; invoke_agent is not called in that run.
preview_search_fails(by) ==
    /\ \E t \in callers : pc[t] = "idle"
    /\ issued < limits.issued
    /\ Cardinality({i \in DOMAIN runs : runs[i].search = "failed"}) < MaxSearchFailures
    /\ runs' = Append(runs, Run(by, "failed", "none", << >>, << >>, 0))
    /\ UNCHANGED <<clock, ticks, issued, failures, USE_GEMINI, callers, limits, inputs,
                   snapshots, db, outbox, request, shared, locks, pc, frame, caller,
                   observed, call_log>>

\* Every output that is not empty is sent, the sentence that nothing was
\* found included.
MeaningfulIfNotEmpty(email_body) == Truthy(email_body)

\* scheduler.py line 46: the output is worth sending.
Meaningful(email_body) ==
    Truthy(email_body) /\ ~Contains(email_body, "No new opportunities")

\* scheduler.py lines 34-61, after invoke_agent came back to the job.  An
\* exception of invoke_agent is not caught and ends the job.  Otherwise the
\* output is the email body; unless it is empty or says "No new
\* opportunities" it goes to every configured recipient.  The collection
\* is neither read nor written.
daily_job_search(t) ==
    /\ pc[t] = "done"
    /\ EndRun(t)
    /\ UNCHANGED <<db, request>>
    /\ IF Truthy(raised[t])
       THEN /\ outbox' = outbox
            /\ runs' = Append(runs, Run("daily_job_search", "ok", "raised",
                                        << >>, << >>, 0))
       ELSE LET email_body == Body(returned[t])
                send == Meaningful(email_body)
                mails == [i \in DOMAIN DAILY_JOB_CONFIG.emails |->
                             Email("daily_job_search", DAILY_JOB_CONFIG.emails[i],
                                   Range(Opportunities(returned[t])), db)]
            IN  /\ outbox' = IF send THEN outbox \o mails ELSE outbox
                /\ runs' = Append(runs, Run("daily_job_search", "ok", "ok", email_body,
                                            << >>, IF send THEN Len(mails) ELSE 0))

\* The locals of the loop of search_opportunities when no request is in it.
NoRequest == [todo |-> << >>, new_items |-> << >>, email |-> << >>, known |-> {}]

\* main.py lines 61-86, after invoke_agent came back to the endpoint.  An
\* exception of invoke_agent or of json.loads is raised again; otherwise the
\* loop over the opportunities begins.
search_opportunities(t, email) ==
    /\ pc[t] = "done"
    /\ IF Truthy(raised[t]) \/ ~IsJson(returned[t])
       THEN /\ EndRun(t)
            /\ runs' = Append(runs, Run("search_opportunities", "ok", "raised",
                                        << >>, << >>, 0))
            /\ UNCHANGED <<db, outbox, request>>
       ELSE /\ Goto(t, "M89")
            /\ request' = [request EXCEPT ![t] =
                              [todo |-> Opportunities(returned[t]), new_items |-> << >>,
                               email |-> email, known |-> db]]
            /\ UNCHANGED <<clock, ticks, issued, failures, USE_GEMINI, callers, limits,
                           inputs, snapshots, db, outbox, runs, shared, locks, frame,
                           caller, observed, call_log>>

\* main.py lines 88-93: the loop takes the next opportunity and
\* opportunity_exists asks the collection (find_one); a posting that is
\* there is passed over.
CheckExists(t) ==
    /\ pc[t] = "M89"
    /\ IF request[t].todo = << >>
       THEN /\ Goto(t, "M97")
            /\ UNCHANGED request
       ELSE LET opp == Head(request[t].todo)
            IN  IF opportunity_exists(db, opp.official_link, opp.title, opp.country)
                THEN /\ request' = [request EXCEPT ![t].todo = Tail(@)]
                     /\ UNCHANGED pc
                ELSE /\ Goto(t, "M94")
                     /\ UNCHANGED request
    /\ UNCHANGED <<clock, ticks, issued, failures, USE_GEMINI, callers, limits, inputs,
                   snapshots, db, outbox, runs, shared, locks, frame, caller, observed,
                   call_log>>

\* main.py lines 94-95: save_opportunity (insert_one) and
\* new_items.append.
SaveNew(t) ==
    /\ pc[t] = "M94"
    /\ db' = db \cup {Document(Head(request[t].todo), db)}
    /\ request' = [request EXCEPT ![t].todo = Tail(@),
                                  ![t].new_items = Append(@, Head(request[t].todo))]
    /\ Goto(t, "M89")
    /\ UNCHANGED <<clock, ticks, issued, failures, USE_GEMINI, callers, limits, inputs,
                   snapshots, outbox, runs, shared, locks, frame, caller, observed,
                   call_log>>

\* main.py lines 97-109: the new postings are sent if the request names an
\* email and there is one, and returned as new_results.
Respond(t) ==
    /\ pc[t] = "M97"
    /\ LET new_items == request[t].new_items
           send == Truthy(request[t].email) /\ new_items # << >>
       IN  /\ outbox' = IF send
                        THEN Append(outbox, Email("search_opportunities", request[t].email,
                                                  Range(new_items), request[t].known))
                        ELSE outbox
           /\ runs' = Append(runs, Run("search_opportunities", "ok", "ok",
                                       Body(returned[t]), new_items,
                                       IF send THEN 1 ELSE 0))
    /\ request' = [request EXCEPT ![t] = NoRequest]
    /\ db' = db
    /\ EndRun(t)

NextPipeline ==
    \/ \E by \in {"daily_job_search", "search_opportunities"} :
           Running /\ preview_search_fails(by)
    \/ \E t \in Threads : daily_job_search(t)
    \/ \E t \in Threads : \E email \in RequestEmails : search_opportunities(t, email)
    \/ \E t \in Threads : Running /\ (CheckExists(t) \/ SaveNew(t) \/ Respond(t))
    \/ Running /\ Step

PipelineSpec == InitPipeline /\ [][NextPipeline]_vars

\* Two threads: requests to the endpoint and the scheduled job overlap.
OverlapSpec == InitOverlap /\ [][NextPipeline]_vars

\* ------------------------------------------------------------------ claims
\* The entries of a log of times that fall in the 60 s window opening at
\* entry i.
InWindow(log, i) == {j \in DOMAIN log : log[i] <= log[j] /\ log[j] < log[i] + WINDOW}

\* Thread t stands at "done" with the outcome of a call that went through
\* the cache probe as a hit, or as a miss.
DoneHit(t) == pc[t] = "done" /\ tally[t]["cache_hits"] = 1
DoneMiss(t) == pc[t] = "done" /\ tally[t]["cache_misses"] = 1

\* The quota markers of a message, as the claims name them.
HasQuotaMarker(msg) ==
    \E i \in DOMAIN msg :
        msg[i] \in {"RESOURCE_EXHAUSTED", "429", "quota", "Quota", "QUOTA"}

\* The key and the cache entry that belong to the payload thread t passed.
KeyOf(t) == CacheKey(NormalizeText(payload[t]))
EntryOf(t) == GetOrFalsy(_cache, KeyOf(t))

\* The counters of one call that went through the probe.
AfterProbe(outcome) ==
    [ZeroCounters EXCEPT !["total_invocations"] = 1, ![outcome] = 1]

\* C1: payloads that normalize to the same input text share one cache
\* entry.  A call is taken as a miss only when the cache holds no entry
\* younger than CACHE_TTL for the key of its normalized text, and a hit
\* returns the entry's stored response, which answers that same text,
\* without any Agent Caller attempt.  The stored response is the one the
\* storing call returned, and with calls issued one after another it is
\* replaced only by a call that found it CACHE_TTL old or older: a later
\* call with the same text, made before that, returns the same response.
C1_SameTextSharesEntry ==
    /\ [](\A t \in Threads :
            /\ pc[t] \in {"L213", "L214"} =>
                  (EntryOf(t) = << >> \/ frame[t].now - EntryOf(t)[1] >= CACHE_TTL)
            /\ DoneHit(t) =>
                  /\ EntryOf(t) # << >>
                  /\ returned[t] = EntryOf(t)[2]
                  /\ \E v \in Variants :
                        returned[t] = Response(NormalizeText(payload[t]), v)
                  /\ raised[t] = << >>
                  /\ tally[t]["model_calls"] = 0)
    /\ [][\A k \in DOMAIN _cache' :
            (k \notin DOMAIN _cache \/ _cache'[k] # _cache[k]) =>
                \E t \in Threads :
                    /\ pc[t] = "L257"
                    /\ frame[t].key = k
                    /\ _cache'[k] = <<clock, returned'[t]>>
                    /\ k \in DOMAIN _cache =>
                          frame[t].now >= _cache[k][1] + CACHE_TTL]_vars

\* C1 witness: a messages-list payload was answered from the cache entry
\* of its extracted text.
C1_StructuredPayloadHits ==
    \E t \in Threads :
        /\ DoneHit(t)
        /\ payload[t].kind = "dict"
        /\ "messages" \in DOMAIN payload[t].dict
        /\ returned[t] = EntryOf(t)[2]

\* C2: with rate limiting enabled, the timestamp log never holds more than
\* RATE_LIMIT admission timestamps inside one rolling 60 s window, under
\* every interleaving of concurrent calls.
C2_WindowHoldsAtMostLimit ==
    USE_GEMINI =>
        \A i \in DOMAIN _call_timestamps :
            Cardinality(InWindow(_call_timestamps, i)) <= RATE_LIMIT

\* C3: with rate limiting enabled, no rolling 60 s window holds the start of
\* more than RATE_LIMIT Agent Caller attempts, first attempts and retries
\* counted together.
C3_AttemptsWithinLimit ==
    USE_GEMINI =>
        \A i \in DOMAIN call_log : Cardinality(InWindow(call_log, i)) <= RATE_LIMIT

\* C4: a call whose every Agent Caller attempt failed with a quota error
\* ends with 4 model calls, 3 retries and that error raised.
C4_ExhaustionCounts ==
    \A t \in Threads :
        (pc[t] = "done" /\ raised[t] \in AgentErrors /\ HasQuotaMarker(raised[t]))
            => /\ tally[t]["model_calls"] = 4
               /\ tally[t]["retries"] = 3


\* C4 failing state: four quota failures end with four retries counted.
C4_FourRetriesCounted ==
    \E t \in Threads :
        /\ pc[t] = "done"
        /\ raised[t] = <<"RESOURCE_EXHAUSTED">>
        /\ tally[t]["model_calls"] = 4
        /\ tally[t]["retries"] = 4

\* The backoff sleeps thread t has asked for in this call.
Backoffs(t) == SelectSeq(slept[t], LAMBDA z : z[1] = "backoff")

\* C5: when an Agent Caller attempt fails with a message that carries no
\* quota marker, the call ends with its next step: the same error is
\* raised, errors goes up by one, and no retry is counted, no sleep is
\* asked for and no further attempt is made.
C5_FatalErrorAborts ==
    [][\A t \in Threads :
        (pc[t] = "L262" /\ ~HasQuotaMarker(frame[t].last_exc) /\ pc'[t] # pc[t]) =>
            /\ pc'[t] = "done"
            /\ raised'[t] = frame[t].last_exc
            /\ returned'[t] = << >>
            /\ tally'[t] = [tally[t] EXCEPT !["errors"] = @ + 1]
            /\ tally'[t]["retries"] = Len(Backoffs(t))
            /\ slept'[t] = slept[t]
            /\ clock' = clock
            /\ call_log' = call_log
            /\ _cache' = _cache]_vars

\* C5 witness: the first attempt failed with a plain error and the call
\* ended with one model call, one error and no retry.
C5_FirstAttemptFatal ==
    \E t \in Threads :
        /\ pc[t] = "done"
        /\ raised[t] = <<"Boom">>
        /\ tally[t]["model_calls"] = 1
        /\ tally[t]["errors"] = 1
        /\ tally[t]["retries"] = 0
        /\ slept[t] = << >>

\* C6: a call that missed the cache and returned a result made one more
\* Agent Caller attempt than it counted retries (k quota failures, k <= 3,
\* then a success), raised nothing, and left its result in the cache under
\* the key of its normalized text.
C6_RetriesThenSuccess ==
    \A t \in Threads :
        (DoneMiss(t) /\ returned[t] # << >>) =>
            /\ tally[t]["retries"] \in 0 .. (max_attempts - 1)
            /\ tally[t]["model_calls"] = tally[t]["retries"] + 1
            /\ tally[t]["errors"] = tally[t]["retries"]
            /\ Len(Backoffs(t)) = tally[t]["retries"]
            /\ raised[t] = << >>
            /\ \E v \in Variants :
                  returned[t] = Response(NormalizeText(payload[t]), v)
            /\ KeyOf(t) \in DOMAIN _cache
            /\ _cache[KeyOf(t)] = <<clock, returned[t]>>

\* C6 witness: two quota failures, then a success on the third attempt.
C6_ThirdAttemptSucceeds ==
    \E t \in Threads :
        /\ DoneMiss(t)
        /\ returned[t] # << >>
        /\ tally[t]["model_calls"] = 3
        /\ tally[t]["retries"] = 2
        /\ _cache[KeyOf(t)][2] = returned[t]

\* The program points of a call after its probe came out as a miss.
PastMiss ==
    {"L213", "L214", "L220", "L222", "L228", "L229", "L235", "L238", "L241",
     "L242", "L251", "L254", "L256", "L257", "L262", "L267", "L270"}

\* C7: an entry stored at time s answers a probe made at time now exactly
\* when now < s + CACHE_TTL.  At now >= s + CACHE_TTL the call goes down
\* the miss path, Agent Caller included, and the stale entry stays in the
\* cache until a later store overwrites it.
C7_TtlBoundary ==
    \A t \in Threads :
        LET e == frame[t].entry
            n == frame[t].now
        IN  /\ pc[t] \in {"L208", "L209"} =>
                  /\ e # << >>
                  /\ n < e[1] + CACHE_TTL
                  /\ GetOrFalsy(_cache, frame[t].key) = e
            /\ pc[t] \in PastMiss =>
                  (e # << >> => n >= e[1] + CACHE_TTL)
            /\ pc[t] \in {"L213", "L214"} =>
                  GetOrFalsy(_cache, frame[t].key) = e

\* C7 witness: a probe made exactly CACHE_TTL seconds after the store is a
\* miss that reaches Agent Caller.
C7_StaleAtExactlyTtl ==
    \E t \in Threads :
        /\ pc[t] = "L254"
        /\ frame[t].entry # << >>
        /\ frame[t].now = frame[t].entry[1] + CACHE_TTL

\* C8: a cache hit adds one to total_invocations and one to cache_hits and
\* changes nothing else: no other counter, no timestamp, no sleep, no
\* Agent Caller attempt and no cache write.
C8_HitTouchesTwoCounters ==
    /\ [](\A t \in Threads :
            /\ pc[t] = "L208" => /\ tally[t] = [ZeroCounters EXCEPT
                                                  !["total_invocations"] = 1]
                                 /\ slept[t] = << >>
                                 /\ appended[t] = 0
            /\ DoneHit(t) => /\ tally[t] = AfterProbe("cache_hits")
                             /\ slept[t] = << >>
                             /\ appended[t] = 0)
    /\ [][\A t \in Threads :
            (pc[t] \in {"L208", "L209"} /\ pc'[t] # pc[t]) =>
                /\ pc'[t] \in {"L209", "done"}
                /\ _call_timestamps' = _call_timestamps
                /\ _cache' = _cache
                /\ call_log' = call_log
                /\ clock' = clock
                /\ \A c \in Counters \ {"cache_hits"} : _metrics'[c] = _metrics[c]
                /\ _metrics'["cache_hits"] =
                      _metrics["cache_hits"] + (IF pc'[t] = "done" THEN 1 ELSE 0)]_vars

\* C8 witness: a call answered from the cache has ended.
C8_HitCounted ==
    \E t \in Threads :
        /\ DoneHit(t)
        /\ returned[t] # << >>
        /\ _metrics["cache_hits"] >= 1
        /\ _metrics["model_calls"] = _metrics["cache_misses"]

\* The timestamps of log that are at most 60 s older than n.
NotOlder(log, n) == SelectSeq(log, LAMBDA x : n - x <= WINDOW)

\* C9: on a miss with rate limiting on, the check leaves in the log exactly
\* the timestamps not older than 60 s.  With fewer than RATE_LIMIT left the
\* call goes on with wait 0; otherwise wait = 60 - (now - oldest), the call
\* is refused when wait > MAX_WAIT_SECONDS and otherwise sleeps exactly
\* wait (no sleep at all for 0) before it is admitted, so that no
\* rate-limit sleep is longer than MAX_WAIT_SECONDS.
C9_AdmissionRule ==
    /\ [](\A t \in Threads :
            /\ \A i \in DOMAIN slept[t] :
                  slept[t][i][1] = "rate_limit" =>
                      /\ slept[t][i][2] > 0
                      /\ slept[t][i][2] <= MAX_WAIT_SECONDS
            /\ pc[t] = "L238" =>
                  /\ slept[t] = << <<"rate_limit", frame[t].wait>> >>
                  /\ tally[t]["rate_limited_waits"] = 1)
    /\ [][\A t \in Threads :
            /\ (pc[t] = "L222" /\ pc'[t] # pc[t]) =>
                  LET kept == NotOlder(_call_timestamps, frame[t].now)
                      w == frame'[t].wait
                  IN  /\ _call_timestamps' = kept
                      /\ IF Len(kept) < RATE_LIMIT
                         THEN w = 0
                         ELSE w = WINDOW - (frame[t].now - kept[1])
                      /\ pc'[t] = IF w > MAX_WAIT_SECONDS THEN "L228"
                                  ELSE IF w > 0 THEN "L235" ELSE "L241"
            /\ (pc[t] = "L238" /\ pc'[t] # pc[t]) =>
                  /\ pc'[t] = "L241"
                  /\ clock' >= frame[t].wake
                  /\ clock' <= clock + frame[t].wait]_vars

\* C9 witness: with the log full and the oldest timestamp 30 s old, the
\* call sleeps exactly MAX_WAIT_SECONDS and is then admitted.
C9_SleepsFullWait ==
    \E t \in Threads :
        /\ pc[t] = "L251"
        /\ slept[t] = << <<"rate_limit", MAX_WAIT_SECONDS>> >>
        /\ appended[t] = 1
        /\ Len(_call_timestamps) = RATE_LIMIT + 1

\* C10: a refused call counts one error and raises the rate-limit error
\* at once: it makes no Agent Caller attempt, asks for no sleep, appends
\* no timestamp, leaves the cache alone and counts no model call, retry
\* or rate-limited wait.
C10_RefusalOnlyCountsError ==
    /\ [](\A t \in Threads :
            /\ pc[t] \in {"L228", "L229"} =>
                  /\ frame[t].wait > MAX_WAIT_SECONDS
                  /\ tally[t] = AfterProbe("cache_misses")
                  /\ slept[t] = << >>
                  /\ appended[t] = 0
            /\ (pc[t] = "done" /\ raised[t] = RateLimitError) =>
                  /\ tally[t] = [AfterProbe("cache_misses") EXCEPT !["errors"] = 1]
                  /\ returned[t] = << >>
                  /\ slept[t] = << >>
                  /\ appended[t] = 0)
    /\ [][\A t \in Threads :
            (pc[t] \in {"L228", "L229"} /\ pc'[t] # pc[t]) =>
                /\ pc'[t] \in {"L229", "done"}
                /\ pc'[t] = "done" => raised'[t] = RateLimitError
                /\ _call_timestamps' = _call_timestamps
                /\ _cache' = _cache
                /\ call_log' = call_log
                /\ clock' = clock]_vars

\* C10 witness: a call was refused with the log full of fresh timestamps.
C10_Refused ==
    \E t \in Threads :
        /\ pc[t] = "done"
        /\ raised[t] = RateLimitError
        /\ tally[t]["errors"] = 1
        /\ Len(_call_timestamps) = RATE_LIMIT

\* C11: with rate limiting switched off (USE_GEMINI false) admission does
\* nothing: no call is refused, none waits or counts a rate-limited wait,
\* and the timestamp log stays as it was (empty).
C11_DisabledLimiterIsNoOp ==
    ~USE_GEMINI =>
        /\ _call_timestamps = << >>
        /\ \A t \in Threads :
              /\ raised[t] # RateLimitError
              /\ tally[t]["rate_limited_waits"] = 0
              /\ frame[t].wait = 0
              /\ slept[t] = << >> \/ \A i \in DOMAIN slept[t] : slept[t][i][1] = "backoff"
              /\ appended[t] = 0

\* C11, the part that holds: with rate limiting off no call is refused or
\* made to wait.
C11_DisabledNeverWaits ==
    ~USE_GEMINI =>
        \A t \in Threads :
            /\ raised[t] # RateLimitError
            /\ tally[t]["rate_limited_waits"] = 0
            /\ frame[t].wait = 0
            /\ pc[t] \notin {"L220", "L222", "L228", "L229", "L235", "L238"}

\* C12: every call that ends by raising to its caller has counted an error
\* first, and every Agent Caller failure that is retried was counted as an
\* error before the retry.
C12_ErrorsCountedFirst ==
    \A t \in Threads :
        /\ (pc[t] = "done" /\ raised[t] # << >>) => tally[t]["errors"] >= 1
        /\ pc[t] \in {"L267", "L270"} =>
              /\ tally[t]["errors"] >= 1
              /\ tally[t]["errors"] > tally[t]["retries"] - (IF pc[t] = "L270" THEN 1 ELSE 0)

\* C12, the part that holds: once the call has passed normalization, every
\* exception it raises and every retry it makes comes after an errors
\* increment of the same call.
C12_CountedAfterNormalization ==
    \A t \in Threads :
        /\ (pc[t] = "done" /\ raised[t] # << >> /\ tally[t]["total_invocations"] = 1)
              => tally[t]["errors"] >= 1
        /\ pc[t] \in {"L267", "L270"} =>
              tally[t]["errors"] > tally[t]["retries"] - (IF pc[t] = "L270" THEN 1 ELSE 0)

\* C13: the cache changes only in the step in which a call whose Agent
\* Caller attempt succeeded stores its result and returns it; that step
\* touches the entry of the call's own key and no other.  Calls that end in
\* a hit, a refusal or an Agent Caller error never create, refresh or
\* remove an entry.
C13_OnlySuccessWritesCache ==
    [][_cache' # _cache =>
        \E t \in Threads :
            /\ pc[t] = "L257"
            /\ pc'[t] = "done"
            /\ frame[t].result # << >>
            /\ returned'[t] = frame[t].result
            /\ raised'[t] = << >>
            /\ tally'[t]["cache_hits"] = 0
            /\ tally'[t]["errors"] = tally'[t]["retries"]
            /\ DOMAIN _cache' = DOMAIN _cache \cup {frame[t].key}
            /\ \A k \in DOMAIN _cache \ {frame[t].key} : _cache'[k] = _cache[k]]_vars

\* C13 witness: a call ended with an Agent Caller error while the expired
\* entry of its key is still in the cache.
C13_FailedCallKeepsEntry ==
    \E t \in Threads :
        /\ pc[t] = "done"
        /\ raised[t] \in AgentErrors
        /\ KeyOf(t) \in DOMAIN _cache
        /\ clock - _cache[KeyOf(t)][1] >= CACHE_TTL

\* Thread t is in, or has just ended, a call of invoke_agent("").
CalledWithEmptyString(t) ==
    pc[t] # "idle" /\ payload[t].kind = "str" /\ payload[t].str = << >>

\* C14: invoke_agent("") is not rejected: it runs the normal pipeline with
\* the empty text as normalized input.  It counts the invocation, probes
\* the cache under the key of the empty text, and on a miss that is not
\* refused it calls Agent Caller with that text.
C14_EmptyStringAccepted ==
    \A t \in Threads :
        CalledWithEmptyString(t) =>
            /\ pc[t] # "done" =>
                  /\ frame[t].input_text = << >>
                  /\ frame[t].key = CacheKey(<< >>)
            /\ pc[t] \notin {"L199", "done"} => tally[t]["total_invocations"] = 1
            /\ pc[t] \in {"L208", "L209", "L213", "L214"} =>
                  frame[t].entry = GetOrFalsy(_cache, CacheKey(<< >>))
            /\ pc[t] = "done" =>
                  /\ tally[t]["total_invocations"] = 1
                  /\ tally[t]["cache_hits"] + tally[t]["cache_misses"] = 1
                  /\ raised[t] \in {<< >>, RateLimitError} \cup AgentErrors
                  /\ (tally[t]["cache_misses"] = 1 /\ raised[t] # RateLimitError)
                        => tally[t]["model_calls"] >= 1
                  /\ returned[t] # << >> =>
                        \E v \in Variants : returned[t] = Response(<< >>, v)

\* C14 witness: invoke_agent("") missed the cache, called Agent Caller once
\* and returned its answer to the empty text.
C14_EmptyStringAnswered ==
    \E t \in Threads :
        /\ CalledWithEmptyString(t)
        /\ pc[t] = "done"
        /\ tally[t]["cache_misses"] = 1
        /\ tally[t]["model_calls"] = 1
        /\ returned[t] \in {Response(<< >>, v) : v \in Variants}
        /\ _cache[CacheKey(<< >>)][2] = returned[t]

\* Thread t is in, or has just ended, a call whose payload is a mapping
\* from which no text can be taken.
CalledWithoutText(t) ==
    /\ pc[t] # "idle"
    /\ payload[t].kind = "dict"
    /\ ~MessagesRaise(payload[t])
    /\ ExtractText(payload[t]) = << >>

Untouched == {i \in DOMAIN snapshots : ~snapshots[i].touched}

\* C16: whatever invocations have run (hits, misses, errors) and wherever
\* the readers cut in, every counter is a non-negative integer, both inside
\* the module and in every mapping get_metrics() has returned, and of two
\* mappings returned one after the other the later one holds, for every
\* counter, a value at least as large as the earlier one.
C16_CountersNeverDecrease ==
    /\ \A c \in Counters : _metrics[c] \in Nat
    /\ \A i \in Untouched : \A c \in Counters : Seen(i)[c] \in Nat
    /\ \A i, j \in Untouched :
           i < j => \A c \in Counters : Seen(j)[c] >= Seen(i)[c]

\* Two snapshots with an error and a miss before the first and a hit
\* between them.
C16_SnapshotsApart ==
    /\ Untouched = {1, 2}
    /\ Seen(1)["errors"] >= 1
    /\ Seen(1)["cache_misses"] >= 1
    /\ Seen(2)["cache_hits"] > Seen(1)["cache_hits"]
    /\ Seen(2)["total_invocations"] > Seen(1)["total_invocations"]


\* ------------------------------------------------------------------- C18
\* The returned mappings a step writes into.
Written == {i \in DOMAIN snapshots : snapshots'[i].touched # snapshots[i].touched}

\* C18: get_metrics() returns the counters as they are at the call, in a
\* mapping of its own.  A write into a returned mapping changes neither
\* the internal counters nor what any other returned mapping shows, and no
\* later step of an invocation changes what a returned mapping shows.
C18_SnapshotIsIndependent ==
    [][ /\ Written # {} => _metrics' = _metrics
        /\ \A i \in DOMAIN snapshots \ Written : Seen(i)' = Seen(i)
        /\ Len(snapshots') > Len(snapshots) =>
               Seen(Len(snapshots))' = _metrics ]_vars

\* One mapping was written into, another one was not and is older than the
\* counters, which went on counting.
C18_WrittenAndOutdated ==
    \E i, j \in DOMAIN snapshots :
        /\ snapshots[i].touched /\ Seen(i)["errors"] = -1
        /\ ~snapshots[j].touched /\ Seen(j)["total_invocations"] >= 1
        /\ _metrics["total_invocations"] > Seen(j)["total_invocations"]
        /\ _metrics["errors"] >= 1


\* ------------------------------------------------------------------- C17
\* The postings of an email that the collection held when the run looked.
AlreadyStored(mail) ==
    {opp \in mail.postings :
        opportunity_exists(mail.known, opp.official_link, opp.title, opp.country)}

\* C17: whichever entry point ran, the scheduled job or the endpoint, an
\* email lists no posting that was stored by an earlier run, and every
\* posting it lists is stored in the collection by the end of the run.
C17_BothEntryPointsDedupe ==
    \A i \in DOMAIN outbox :
        /\ AlreadyStored(outbox[i]) = {}
        /\ \A opp \in outbox[i].postings :
               opportunity_exists(db, opp.official_link, opp.title, opp.country)


\* ------------------------------------------------------------------- C19
\* C19: a retry is counted and a backoff is slept only when another attempt
\* of the same call follows.  While thread t sleeps a backoff it has an
\* attempt left, and a call that went to Agent Caller ends with one retry
\* and one backoff sleep fewer than attempts.
C19_BackoffOnlyBetweenAttempts ==
    \A t \in Threads :
        /\ pc[t] = "L270" => HasNextAttempt(frame[t].attempt)
        /\ (pc[t] = "done" /\ tally[t]["model_calls"] >= 1) =>
               /\ tally[t]["retries"] = tally[t]["model_calls"] - 1
               /\ Len(Backoffs(t)) = tally[t]["model_calls"] - 1


\* ------------------------------------------------------------------- C20
\* C20: the i-th backoff sleep of a call lasts min(2^(i-1), 30) seconds:
\* 1, 2, 4, ... from 1 again in every call, and never more than 30.
C20_BackoffDoubles ==
    \A t \in Threads :
        \A i \in DOMAIN Backoffs(t) :
            /\ Backoffs(t)[i][2] = Min(2 ^ (i - 1), BACKOFF_CAP)
            /\ Backoffs(t)[i][2] <= BACKOFF_CAP

\* The second call sleeps 1 s and 2 s after the first call had slept 1 s
\* and 2 s as well.
C20_SecondCallStartsAtOne ==
    \E t \in Threads :
        /\ issued = 2
        /\ _metrics["retries"] = 4
        /\ Backoffs(t) = << <<"backoff", 1>>, <<"backoff", 2>> >>


\* ------------------------------------------------------------------- C21
\* The shape of a call of thread t: a hit never reaches Agent Caller; an
\* attempt is one of at most max_attempts, is made after a miss and one
\* recorded admission, and follows neither a success nor a failure without
\* quota marker; the outcome is either a result or an error; an error of
\* Agent Caller with a quota marker is raised after max_attempts attempts.
WellShaped(t) ==
    /\ tally[t]["model_calls"] <= max_attempts
    /\ tally[t]["cache_hits"] = 1 => tally[t]["model_calls"] = 0
    /\ pc[t] \in {"L251", "L254"} =>
          /\ frame[t].attempt \in 1 .. max_attempts
          /\ tally[t]["cache_misses"] = 1
          /\ appended[t] = 1
          /\ frame[t].result = << >>
          /\ frame[t].last_exc # << >> => HasQuotaMarker(frame[t].last_exc)
    /\ pc[t] = "done" => (returned[t] = << >>) # (raised[t] = << >>)
    /\ (pc[t] = "done" /\ raised[t] \in AgentErrors /\ HasQuotaMarker(raised[t]))
          => tally[t]["model_calls"] = max_attempts

\* C21: every call is a hit that is done at once, or a miss, an admission
\* and one to four attempts; as long as sleeps and Agent Caller calls come
\* back, every call that was begun ends with a result or an error.
C21_InvocationTerminates ==
    /\ [](\A t \in Threads : WellShaped(t))
    /\ \A t \in Threads : (~Outside(t)) ~> (pc[t] = "done")

\* A call that ends with an error after its fourth attempt.
C21_DoneAfterFourAttempts ==
    \E t \in Threads :
        /\ pc[t] = "done"
        /\ tally[t]["model_calls"] = max_attempts
        /\ tally[t]["errors"] = max_attempts
        /\ raised[t] # << >>
        /\ returned[t] = << >>


\* ------------------------------------------------------------------- C22
\* Thread t is suspended: in time.sleep (lines 238, 270) or in
\* agent_executor.invoke (line 254).
Suspended(t) == pc[t] \in {"L238", "L270", "L254"}

\* The locks thread t holds.
Held(t) ==
    {l \in {"timestamps", "cache", "metrics"} :
        \/ l = "timestamps" /\ _timestamps_lock = t
        \/ l = "cache" /\ _cache_lock = t
        \/ l = "metrics" /\ _metrics_lock = t}

\* C22: a suspended thread holds none of the three locks, and a lock is
\* held only inside the with block that reads and writes its structure:
\* the cache lock from the probe to the counted hit or miss and for the
\* store, the timestamps lock for the pruning check (refusal included) and
\* for the append, the metrics lock for one counter update.
C22_NoLockAcrossSuspension ==
    \A t \in Threads :
        /\ Suspended(t) => Held(t) = {}
        /\ "cache" \in Held(t) => pc[t] \in {"L208", "L209", "L213", "L214", "L257"}
        /\ "timestamps" \in Held(t) => pc[t] \in {"L222", "L228", "L229", "L242"}
        /\ "metrics" \in Held(t) => pc[t] \in {"L209", "L214", "L229"}

\* One thread is inside agent_executor.invoke, holding nothing, while the
\* other one holds the cache lock and the metrics lock.
C22_SuspendedBesideHolder ==
    \E t, u \in Threads :
        /\ t # u
        /\ pc[t] = "L254"
        /\ Held(t) = {}
        /\ Held(u) = {"cache", "metrics"}


\* ------------------------------------------------------------------- C23
\* The program points of a call from its first attempt on.
AfterRecord == {"L251", "L254", "L256", "L257", "L262", "L267", "L270"}

\* The call of thread t was admitted and has recorded its timestamp, which
\* is the last one of the log.
Recorded(t) ==
    /\ appended[t] = 1
    /\ _call_timestamps # << >>
    /\ _call_timestamps[Len(_call_timestamps)] <= clock

\* C23: a call that misses and is admitted appends exactly one timestamp.
\* The append is the step from line 242 to the first attempt, it comes
\* after the rate-limit wait if there was one and takes the time of that
\* moment; no attempt, retry or outcome appends or removes a timestamp; a
\* hit or a refused call appends none.
C23_OneTimestampPerAdmission ==
    /\ [](\A t \in Threads :
            /\ appended[t] <= 1
            /\ pc[t] \in AfterRecord => Recorded(t)
            /\ pc[t] \in PastMiss \ AfterRecord => appended[t] = 0
            /\ pc[t] = "done" =>
                  IF tally[t]["cache_misses"] = 1 /\ raised[t] # RateLimitError
                  THEN Recorded(t) /\ tally[t]["model_calls"] >= 1
                  ELSE appended[t] = 0)
    /\ [][\A t \in Threads :
            /\ appended'[t] > appended[t] =>
                  /\ pc[t] = "L242" /\ pc'[t] = "L251"
                  /\ _call_timestamps' = Append(_call_timestamps, clock)
                  /\ tally[t]["model_calls"] = 0
                  /\ slept[t] # << >> => clock >= frame[t].now + frame[t].wait
            /\ pc[t] \in AfterRecord => _call_timestamps' = _call_timestamps]_vars

\* A call that waited, was admitted, retried and failed: its one timestamp
\* is in the log.
C23_WaitedRetriedFailed ==
    \E t \in Threads :
        /\ pc[t] = "done"
        /\ raised[t] # << >>
        /\ tally[t]["rate_limited_waits"] = 1
        /\ tally[t]["retries"] >= 1
        /\ appended[t] = 1
        /\ _call_timestamps[Len(_call_timestamps)] = clock - 1


\* ------------------------------------------------------------------- C24
\* C24: a string payload is its own user text, whatever it contains: the
\* call does not fail in normalization, and the text of the request is the
\* string, with no search context added; a mapping gives the first
\* non-empty of input, query and message, else the joined contents of its
\* messages list.
C24_StringPassesThrough ==
    \A t \in Threads :
        /\ (pc[t] # "idle" /\ payload[t].kind = "str") =>
              /\ raised[t] # AttributeError
              /\ ~Outside(t) => frame[t].input_text = payload[t].str
        /\ (~Outside(t) /\ payload[t].kind = "dict") =>
              frame[t].input_text =
                  IF Truthy(FirstText(payload[t].dict))
                  THEN FirstText(payload[t].dict)
                  ELSE Join(Contents(payload[t].dict["messages"]))


\* ------------------------------------------------------------------- C25
\* The program points inside a with _cache_lock block.
CacheSection == {"L208", "L209", "L213", "L214", "L257"}

\* e is a whole entry for key k: the time of a store and a response to the
\* text of k.
WholeEntry(e, k) ==
    /\ Len(e) = 2
    /\ e[1] \in 0 .. clock
    /\ \E p \in inputs : \E v \in Variants :
          /\ ~NormalizeRaises(p)
          /\ k = CacheKey(NormalizeText(p))
          /\ e[2] = Response(NormalizeText(p), v)

\* C25: probes and stores of the cache exclude one another.  At most one
\* thread is inside a cache block and it holds the cache lock; what a probe
\* has read is, as long as its block lasts, the entry of its key, absent or
\* whole; and every entry of the cache is a whole pair written by one
\* store.
C25_CacheAccessExclusive ==
    /\ Cardinality({t \in Threads : pc[t] \in CacheSection}) <= 1
    /\ \A t \in Threads : pc[t] \in CacheSection => _cache_lock = t
    /\ \A k \in DOMAIN _cache : WholeEntry(_cache[k], k)
    /\ \A t \in Threads :
          pc[t] \in CacheSection \ {"L257"} =>
              /\ frame[t].entry = GetOrFalsy(_cache, frame[t].key)
              /\ frame[t].entry = << >> \/ WholeEntry(frame[t].entry, frame[t].key)

\* Two calls of the same key overlap: one is about to store its response
\* over the entry, holding a different response, that an earlier store
\* left, while the other one waits for the cache lock to probe.
C25_StoreRacesProbe ==
    \E t, u \in Threads :
        /\ t # u
        /\ pc[t] = "L257"
        /\ frame[t].key \in DOMAIN _cache
        /\ _cache[frame[t].key][2] # frame[t].result
        /\ pc[u] = "L205"
        /\ frame[u].key = frame[t].key


\* ------------------------------------------------------------------- C26
\* The postings the requests to the endpoint have reported as new, one
\* after the other.
Reported ==
    LET RECURSIVE All(_)
        All(i) == IF i = 0 THEN << >> ELSE All(i - 1) \o runs[i].new_results
    IN  All(Len(runs))

\* Two postings are the same to the collection: same link or same hash.
SamePosting(a, b) ==
    \/ a.official_link = b.official_link
    \/ generate_hash(a.title, a.country) = generate_hash(b.title, b.country)

\* C26: however the requests to /search-opportunities overlap and whatever
\* the answers repeat, the collection holds no two documents with the same
\* link or the same hash, and no posting is reported as new twice, by one
\* request or by two.
C26_NoDuplicateEverStored ==
    /\ \A d, e \in db : d # e => ~SamePosting(d, e)
    /\ \A i, j \in DOMAIN Reported : i # j => ~SamePosting(Reported[i], Reported[j])


\* ------------------------------------------------------------------- C27
\* The runs of the scheduled job that are over.
JobRuns == {i \in DOMAIN runs : runs[i].by = "daily_job_search"}

\* The run had its search and its invoke step come back and an output that
\* is neither empty nor the report that nothing new was found.
WorthSending(run) ==
    /\ run.search = "ok"
    /\ run.invoke = "ok"
    /\ run.body # << >>
    /\ \A i \in DOMAIN run.body : run.body[i] # "No new opportunities"

Requested(t) ==
    CASE pc[t] \in {"L205", "L256"} -> {"cache"}
      [] pc[t] \in {"L220", "L241"} -> {"timestamps"}
      [] pc[t] \in {"L199", "L208", "L213", "L228", "L235", "L251", "L262", "L267"}
            -> {"metrics"}
      [] OTHER -> {}

\* C28: calls that overlap never block one another for good.  The cache
\* lock and the timestamps lock are asked for with no lock in hand; the
\* metrics lock is asked for with no lock in hand or inside one of the
\* other two, and nothing is asked for while it is held; as long as a call
\* is under way some call can take a step; and every call, so every lock
\* request it makes, gets through.
C28_LocksNeverDeadlock ==
    /\ [](\A t \in Threads :
            /\ Requested(t) \cap {"cache", "timestamps"} # {} => Held(t) = {}
            /\ Requested(t) = {"metrics"} =>
                  Held(t) \in {{}, {"cache"}, {"timestamps"}}
            /\ "metrics" \in Held(t) => Requested(t) = {}
            /\ Held(t) \in {{}, {"cache"}, {"timestamps"},
                            {"cache", "metrics"}, {"timestamps", "metrics"}})
    /\ []((Running /\ \E t \in Threads : ~Outside(t)) =>
             \E t \in Threads : ENABLED Proceed(t))
    /\ \A t \in Threads : (Requested(t) # {}) ~> Outside(t)

\* One thread asks for the cache lock while the other one holds it with
\* the metrics lock inside, and the first one has to wait.
C28_RequestBlocked ==
    \E t, u \in Threads :
        /\ Requested(t) = {"cache"}
        /\ Held(u) = {"cache", "metrics"}
        /\ ~ENABLED Proceed(t)


\* ------------------------------------------------------------------- C29
\* C29: in every state the hits and misses counted are no more than the
\* invocations counted, the retries no more than the errors, and the model
\* calls no more than max_attempts for every miss; when no call is under
\* way every invocation counted has been counted as a hit or as a miss.
C29_CountersAgree ==
    /\ _metrics["cache_hits"] + _metrics["cache_misses"] <= _metrics["total_invocations"]
    /\ _metrics["retries"] <= _metrics["errors"]
    /\ _metrics["model_calls"] <= 4 * _metrics["cache_misses"]
    /\ (\A t \in Threads : Outside(t)) =>
          _metrics["cache_hits"] + _metrics["cache_misses"] = _metrics["total_invocations"]

\* After a hit and a retried miss, a call is counted that is neither hit
\* nor miss yet.
C29_CountedNotYetProbed ==
    \E t \in Threads :
        /\ pc[t] = "L205"
        /\ _metrics["cache_hits"] >= 1
        /\ _metrics["retries"] >= 1
        /\ _metrics["cache_hits"] + _metrics["cache_misses"] < _metrics["total_invocations"]

=============================================================================
